---- MODULE Spec2Model ----
(***************************************************************************)
(* The Minesweeper board engine of src/src/minesweeper.py as a state       *)
(* machine.  The state is the fields of one Minesweeper object; there is   *)
(* one action per public operation (reveal, flag, chord_reveal, reset,     *)
(* setup_board_from_pattern).  The variables call and result record the    *)
(* last operation invoked, its arguments and its return value; result is   *)
(* TRUE after the operations that return nothing (__init__, reset,         *)
(* setup_board_from_pattern).                                              *)
(***************************************************************************)
EXTENDS Integers, Sequences, FiniteSets, TLC

VARIABLES rows, cols, total_mines, game_state, first_move, grid,
          flags_placed, cells_revealed, total_safe_cells, call, result

vars == <<rows, cols, total_mines, game_state, first_move, grid,
          flags_placed, cells_revealed, total_safe_cells, call, result>>

\* The fields of the Minesweeper object (everything but the call record).
board == <<rows, cols, total_mines, game_state, first_move, grid,
           flags_placed, cells_revealed, total_safe_cells>>

----------------------------------------------------------------------------
\* Bounds of the exploration.
MaxRows == 2
MaxCols == 3
MaxMines == 2
MaxFlags == 2
\* A pattern has at most MaxLines lines of at most MaxLineLen characters.
MaxLines == 2
MaxLineLen == 2

----------------------------------------------------------------------------
\* CellState and GameState enumerations.
HIDDEN == "hidden"
REVEALED == "revealed"
FLAGGED == "flagged"
CellState == {HIDDEN, REVEALED, FLAGGED}

PLAYING == "playing"
WON == "won"
LOST == "lost"
GameState == {PLAYING, WON, LOST}

\* Cell.__init__
Cell == [is_mine |-> FALSE, state |-> HIDDEN, adjacent_mines |-> 0]

\* The coordinates of a grid of nrows x ncols cells.
Positions(nrows, ncols) == (0 .. nrows - 1) \X (0 .. ncols - 1)

\* The grid built by the nested loops of __init__ / setup_board_from_pattern.
NewGrid(nrows, ncols) == [p \in Positions(nrows, ncols) |-> Cell]

\* 0 <= row < self.rows and 0 <= col < self.cols
InBounds(nrows, ncols, row, col) ==
    /\ 0 <= row /\ row < nrows
    /\ 0 <= col /\ col < ncols

Min(a, b) == IF a <= b THEN a ELSE b

----------------------------------------------------------------------------
\* _get_neighbors: the offsets in the order of the two nested loops.
Offsets == << <<-1, -1>>, <<-1, 0>>, <<-1, 1>>,
              <<0, -1>>,             <<0, 1>>,
              <<1, -1>>,  <<1, 0>>,  <<1, 1>> >>

InGridPos(nrows, ncols, p) == InBounds(nrows, ncols, p[1], p[2])

\* A plausible slip: only the upper bounds are tested, so that an index of
\* -1 passes (and would address the last row or column).
get_neighbors_upper_bound_only(nrows, ncols, row, col) ==
    LET cand == [i \in 1 .. Len(Offsets) |->
                    <<row + Offsets[i][1], col + Offsets[i][2]>>]
        RECURSIVE keep(_)
        keep(i) == IF i > Len(cand) THEN <<>>
                   ELSE IF cand[i][1] < nrows /\ cand[i][2] < ncols
                        THEN <<cand[i]>> \o keep(i + 1)
                        ELSE keep(i + 1)
    IN keep(1)

get_neighbors(nrows, ncols, row, col) ==
    LET cand == [i \in 1 .. Len(Offsets) |->
                    <<row + Offsets[i][1], col + Offsets[i][2]>>]
        RECURSIVE keep(_)
        keep(i) == IF i > Len(cand) THEN <<>>
                   ELSE IF InGridPos(nrows, ncols, cand[i])
                        THEN <<cand[i]>> \o keep(i + 1)
                        ELSE keep(i + 1)
    IN keep(1)

\* The set of the neighbours of a cell.
NeighborSet(nrows, ncols, row, col) ==
    LET n == get_neighbors(nrows, ncols, row, col)
    IN {n[i] : i \in 1 .. Len(n)}

\* _calculate_adjacent_mines: only the non-mine cells are written.
RECURSIVE CountMines(_, _, _)
CountMines(g, nbrs, i) ==
    IF i > Len(nbrs) THEN 0
    ELSE (IF g[nbrs[i]].is_mine THEN 1 ELSE 0) + CountMines(g, nbrs, i + 1)

\* A plausible slip: the counts are not written.
calculate_adjacent_mines_unwritten(nrows, ncols, g) == g

calculate_adjacent_mines(nrows, ncols, g) ==
    [p \in DOMAIN g |->
        IF ~g[p].is_mine
        THEN [g[p] EXCEPT !.adjacent_mines =
                 CountMines(g, get_neighbors(nrows, ncols, p[1], p[2]), 1)]
        ELSE g[p]]

\* A plausible slip: only the clicked cell is excluded, not its neighbours.
available_positions_cell_only(nrows, ncols, exclude_row, exclude_col) ==
    Positions(nrows, ncols) \ {<<exclude_row, exclude_col>>}

\* _place_mines: the positions random.sample may be asked to draw from.
available_positions(nrows, ncols, exclude_row, exclude_col) ==
    Positions(nrows, ncols) \
        ({<<exclude_row, exclude_col>>}
            \cup NeighborSet(nrows, ncols, exclude_row, exclude_col))

\* A plausible slip: fewer than k elements may be drawn.
Samples_up_to(population, k) ==
    {S \in SUBSET population : Cardinality(S) <= k}

\* random.sample(population, k): any k distinct elements.
Samples(population, k) == {S \in SUBSET population : Cardinality(S) = k}

\* _place_mines once mine_positions has been drawn.
place_mines(nrows, ncols, g, mine_positions) ==
    calculate_adjacent_mines(nrows, ncols,
        [p \in DOMAIN g |->
            IF p \in mine_positions THEN [g[p] EXCEPT !.is_mine = TRUE]
            ELSE g[p]])

----------------------------------------------------------------------------
\* _reveal_cell, on the part of the object it reads and writes:
\* b = [grid, cells_revealed, game_state]; returns [b, ok].
RECURSIVE reveal_cell(_, _, _)
RECURSIVE reveal_neighbors(_, _, _)

\* A plausible slip: the cell is marked but not counted.
mark_revealed_uncounted(b, row, col) ==
    [b EXCEPT !.grid[<<row, col>>].state = REVEALED]

\* A plausible slip: a revealed cell is counted twice.
mark_revealed_counted_twice(b, row, col) ==
    [b EXCEPT !.grid[<<row, col>>].state = REVEALED,
              !.cells_revealed = @ + 2]

\* cell.state = CellState.REVEALED; self.cells_revealed += 1
mark_revealed(b, row, col) ==
    [b EXCEPT !.grid[<<row, col>>].state = REVEALED,
              !.cells_revealed = @ + 1]

\* A plausible slip: the cascade does not run.
reveal_neighbors_none(b, nbrs, i) == b

\* A plausible slip: the cascade skips the REVEALED neighbours only, and so
\* opens the FLAGGED ones.
RECURSIVE reveal_neighbors_through_flags(_, _, _)
reveal_neighbors_through_flags(b, nbrs, i) ==
    IF i > Len(nbrs) THEN b
    ELSE IF b.grid[nbrs[i]].state # REVEALED
         THEN reveal_neighbors_through_flags(
                  reveal_cell([b EXCEPT !.grid[nbrs[i]].state = HIDDEN],
                              nbrs[i][1], nbrs[i][2]).b,
                  nbrs, i + 1)
         ELSE reveal_neighbors_through_flags(b, nbrs, i + 1)

\* The cascade of _reveal_cell: every HIDDEN neighbour, in order.
reveal_neighbors(b, nbrs, i) ==
    IF i > Len(nbrs) THEN b
    ELSE IF b.grid[nbrs[i]].state = HIDDEN
         THEN reveal_neighbors(reveal_cell(b, nbrs[i][1], nbrs[i][2]).b,
                               nbrs, i + 1)
         ELSE reveal_neighbors(b, nbrs, i + 1)

\* A plausible slip: the cascade goes on from every safe cell, whatever its
\* adjacent_mines.
reveal_cell_cascades_from_numbers(b, row, col) ==
    LET cell == b.grid[<<row, col>>] IN
    IF cell.state # HIDDEN THEN [b |-> b, ok |-> TRUE]
    ELSE LET b1 == mark_revealed(b, row, col)
         IN IF cell.is_mine
            THEN [b |-> [b1 EXCEPT !.game_state = LOST], ok |-> FALSE]
            ELSE [b |-> reveal_neighbors(b1,
                            get_neighbors(rows, cols, row, col), 1),
                  ok |-> TRUE]

\* _reveal_cell

reveal_cell(b, row, col) ==
    LET cell == b.grid[<<row, col>>] IN
    IF cell.state # HIDDEN THEN [b |-> b, ok |-> TRUE]
    ELSE LET b1 == mark_revealed(b, row, col)
         IN IF cell.is_mine
            THEN [b |-> [b1 EXCEPT !.game_state = LOST], ok |-> FALSE]
            ELSE IF cell.adjacent_mines = 0
                 THEN [b |-> reveal_neighbors(b1,
                                 get_neighbors(rows, cols, row, col), 1),
                       ok |-> TRUE]
                 ELSE [b |-> b1, ok |-> TRUE]

\* _are_all_safe_cells_revealed
are_all_safe_cells_revealed(g) ==
    \A p \in DOMAIN g : g[p].is_mine \/ g[p].state = REVEALED

\* A plausible slip: only the HIDDEN mines are revealed.
reveal_all_mines_hidden_only(g) ==
    [p \in DOMAIN g |->
        IF g[p].is_mine /\ g[p].state = HIDDEN
        THEN [g[p] EXCEPT !.state = REVEALED] ELSE g[p]]

\* reveal_all_mines
reveal_all_mines(g) ==
    [p \in DOMAIN g |->
        IF g[p].is_mine THEN [g[p] EXCEPT !.state = REVEALED] ELSE g[p]]

\* A plausible slip: the mines are shown when the game is lost, too.
check_win_shows_mines_on_loss(b, success) ==
    IF success /\ are_all_safe_cells_revealed(b.grid)
    THEN [b EXCEPT !.game_state = WON, !.grid = reveal_all_mines(b.grid)]
    ELSE IF ~success
         THEN [b EXCEPT !.grid = reveal_all_mines(b.grid)]
         ELSE b

\* A plausible slip: the mines revealed by the win are counted.
check_win_counts_mines(b, success) ==
    IF success /\ are_all_safe_cells_revealed(b.grid)
    THEN [b EXCEPT !.game_state = WON, !.grid = reveal_all_mines(b.grid),
                   !.cells_revealed =
                       @ + Cardinality({p \in DOMAIN b.grid :
                                           b.grid[p].is_mine})]
    ELSE b

\* A plausible slip: the win is decided by comparing the counter with
\* total_safe_cells.
check_win_by_counter(b, success) ==
    IF success /\ b.cells_revealed = total_safe_cells
    THEN [b EXCEPT !.game_state = WON, !.grid = reveal_all_mines(b.grid)]
    ELSE b

\* A plausible slip: the win check is left out.
check_win_skipped(b, success) == b

\* The win check that ends reveal and chord_reveal.
check_win(b, success) ==
    IF success /\ are_all_safe_cells_revealed(b.grid)
    THEN [b EXCEPT !.game_state = WON, !.grid = reveal_all_mines(b.grid)]
    ELSE b

----------------------------------------------------------------------------
\* A plausible slip: total_safe_cells does not take the mines off.
Init_mines_not_subtracted ==
    \E r \in 1 .. MaxRows, c \in 1 .. MaxCols, m \in 0 .. MaxMines :
        /\ rows = r
        /\ cols = c
        /\ total_mines = m
        /\ game_state = PLAYING
        /\ first_move = TRUE
        /\ grid = NewGrid(r, c)
        /\ flags_placed = 0
        /\ cells_revealed = 0
        /\ total_safe_cells = r * c
        /\ call = [op |-> "__init__"]
        /\ result = TRUE

\* Minesweeper.__init__(rows, cols, mines)
Init ==
    \E r \in 1 .. MaxRows, c \in 1 .. MaxCols, m \in 0 .. MaxMines :
        /\ rows = r
        /\ cols = c
        /\ total_mines = m
        /\ game_state = PLAYING
        /\ first_move = TRUE
        /\ grid = NewGrid(r, c)
        /\ flags_placed = 0
        /\ cells_revealed = 0
        /\ total_safe_cells = r * c - m
        /\ call = [op |-> "__init__"]
        /\ result = TRUE

\* The coordinates a caller may pass: every cell of the grid, and one
\* position outside of the grid for each of the four comparisons of the
\* bounds check (negative indices included).
Args ==
    Positions(rows, cols)
        \cup {<<-1, 0>>, <<0, -1>>, <<rows, 0>>, <<0, cols>>}

\* A plausible slip: the mines are placed whenever the grid holds no mine,
\* whether or not they were placed before.
reveal_places_while_no_mine(row, col) ==
    /\ call' = [op |-> "reveal", row |-> row, col |-> col]
    /\ IF \/ game_state # PLAYING
          \/ ~InBounds(rows, cols, row, col)
          \/ grid[<<row, col>>].state # HIDDEN
       THEN /\ result' = FALSE
            /\ UNCHANGED board
       ELSE \E mine_positions \in
                 (IF \A p \in DOMAIN grid : ~grid[p].is_mine
                  THEN LET avail == available_positions(rows, cols, row, col)
                       IN Samples(avail, Min(total_mines, Cardinality(avail)))
                  ELSE {{}}) :
              \E r \in {reveal_cell(
                          [grid |-> IF \A p \in DOMAIN grid : ~grid[p].is_mine
                                    THEN place_mines(rows, cols, grid,
                                                     mine_positions)
                                    ELSE grid,
                           cells_revealed |-> cells_revealed,
                           game_state |-> game_state], row, col)} :
              \E b \in {check_win(r.b, r.ok)} :
                 /\ first_move' = FALSE
                 /\ grid' = b.grid
                 /\ cells_revealed' = b.cells_revealed
                 /\ game_state' = b.game_state
                 /\ result' = r.ok
                 /\ UNCHANGED <<rows, cols, total_mines, flags_placed,
                                total_safe_cells>>

\* A plausible slip: reveal without the test for a finished game.
reveal_rejects_game_over_unchecked(row, col) ==
    \/ ~InBounds(rows, cols, row, col)
    \/ grid[<<row, col>>].state = FLAGGED
    \/ grid[<<row, col>>].state = REVEALED

\* A plausible slip: reveal without the test for a flagged cell.
reveal_rejects_flag_unchecked(row, col) ==
    \/ game_state # PLAYING
    \/ ~InBounds(rows, cols, row, col)
    \/ grid[<<row, col>>].state = REVEALED

\* The early returns of reveal: the call fails and changes nothing.
reveal_rejects(row, col) ==
    \/ game_state # PLAYING
    \/ ~InBounds(rows, cols, row, col)
    \/ grid[<<row, col>>].state = FLAGGED
    \/ grid[<<row, col>>].state = REVEALED

\* Minesweeper.reveal(row, col)
reveal(row, col) ==
    /\ call' = [op |-> "reveal", row |-> row, col |-> col]
    /\ IF reveal_rejects(row, col)
       THEN /\ result' = FALSE
            /\ UNCHANGED board
       ELSE \E mine_positions \in
                 (IF first_move
                  THEN LET avail == available_positions(rows, cols, row, col)
                       IN Samples(avail, Min(total_mines, Cardinality(avail)))
                  ELSE {{}}) :
              \E r \in {reveal_cell(
                          [grid |-> IF first_move
                                    THEN place_mines(rows, cols, grid,
                                                     mine_positions)
                                    ELSE grid,
                           cells_revealed |-> cells_revealed,
                           game_state |-> game_state], row, col)} :
              \E b \in {check_win(r.b, r.ok)} :
                 /\ first_move' = FALSE
                 /\ grid' = b.grid
                 /\ cells_revealed' = b.cells_revealed
                 /\ game_state' = b.game_state
                 /\ result' = r.ok
                 /\ UNCHANGED <<rows, cols, total_mines, flags_placed,
                                total_safe_cells>>

\* A plausible slip: flag without the test for a finished game.
flag_rejects_game_over_unchecked(row, col) ==
    \/ ~InBounds(rows, cols, row, col)
    \/ grid[<<row, col>>].state = REVEALED

\* A plausible slip: flag without the test for a revealed cell.
flag_rejects_revealed_unchecked(row, col) ==
    \/ game_state # PLAYING
    \/ ~InBounds(rows, cols, row, col)

\* The early returns of flag: the call fails and changes nothing.
flag_rejects(row, col) ==
    \/ game_state # PLAYING
    \/ ~InBounds(rows, cols, row, col)
    \/ grid[<<row, col>>].state = REVEALED

\* A plausible slip: removing a flag does not decrement the counter.
toggle_flag_no_decrement(g, n, row, col) ==
    IF g[<<row, col>>].state = FLAGGED
    THEN [grid |-> [g EXCEPT ![<<row, col>>].state = HIDDEN],
          flags_placed |-> n]
    ELSE [grid |-> [g EXCEPT ![<<row, col>>].state = FLAGGED],
          flags_placed |-> n + 1]

\* The toggle of flag, on the grid g and the counter n = flags_placed.
toggle_flag(g, n, row, col) ==
    IF g[<<row, col>>].state = FLAGGED
    THEN [grid |-> [g EXCEPT ![<<row, col>>].state = HIDDEN],
          flags_placed |-> n - 1]
    ELSE [grid |-> [g EXCEPT ![<<row, col>>].state = FLAGGED],
          flags_placed |-> n + 1]

\* A plausible slip: flag ends with the win check that reveal ends with.
flag_with_win_check(row, col) ==
    /\ call' = [op |-> "flag", row |-> row, col |-> col]
    /\ IF flag_rejects(row, col)
       THEN /\ result' = FALSE
            /\ UNCHANGED board
       ELSE /\ \E t \in {toggle_flag(grid, flags_placed, row, col)} :
              \E b \in {check_win([grid |-> t.grid,
                                   cells_revealed |-> cells_revealed,
                                   game_state |-> game_state], TRUE)} :
                 /\ grid' = b.grid
                 /\ game_state' = b.game_state
                 /\ flags_placed' = t.flags_placed
            /\ result' = TRUE
            /\ UNCHANGED <<rows, cols, total_mines, first_move,
                           cells_revealed, total_safe_cells>>

\* Minesweeper.flag(row, col)
flag(row, col) ==
    /\ call' = [op |-> "flag", row |-> row, col |-> col]
    /\ IF flag_rejects(row, col)
       THEN /\ result' = FALSE
            /\ UNCHANGED board
       ELSE /\ \E t \in {toggle_flag(grid, flags_placed, row, col)} :
                 /\ grid' = t.grid
                 /\ flags_placed' = t.flags_placed
            /\ result' = TRUE
            /\ UNCHANGED <<rows, cols, total_mines, game_state, first_move,
                           cells_revealed, total_safe_cells>>

\* The first loop of chord_reveal: the number of FLAGGED neighbours.
RECURSIVE flagged_count(_, _, _)
flagged_count(g, nbrs, i) ==
    IF i > Len(nbrs) THEN 0
    ELSE (IF g[nbrs[i]].state = FLAGGED THEN 1 ELSE 0)
            + flagged_count(g, nbrs, i + 1)

\* A plausible slip: the loop returns after the first HIDDEN neighbour.
RECURSIVE chord_loop_first_only(_, _, _)
chord_loop_first_only(b, nbrs, i) ==
    IF i > Len(nbrs) THEN [b |-> b, ok |-> TRUE]
    ELSE IF b.grid[nbrs[i]].state = HIDDEN
         THEN reveal_cell(b, nbrs[i][1], nbrs[i][2])
         ELSE chord_loop_first_only(b, nbrs, i + 1)

\* A plausible slip: the loop goes on after a mine was revealed.
RECURSIVE chord_loop_no_break(_, _, _)
chord_loop_no_break(b, nbrs, i) ==
    IF i > Len(nbrs) THEN [b |-> b, ok |-> b.game_state # LOST]
    ELSE IF b.grid[nbrs[i]].state = HIDDEN
         THEN chord_loop_no_break(reveal_cell(b, nbrs[i][1], nbrs[i][2]).b,
                                  nbrs, i + 1)
         ELSE chord_loop_no_break(b, nbrs, i + 1)

\* The second loop of chord_reveal: reveal the HIDDEN neighbours in order,
\* break at the first mine.  Returns [b, ok].
RECURSIVE chord_loop(_, _, _)
chord_loop(b, nbrs, i) ==
    IF i > Len(nbrs) THEN [b |-> b, ok |-> TRUE]
    ELSE IF b.grid[nbrs[i]].state = HIDDEN
         THEN LET r == reveal_cell(b, nbrs[i][1], nbrs[i][2])
              IN IF ~r.ok THEN [b |-> r.b, ok |-> FALSE]
                 ELSE chord_loop(r.b, nbrs, i + 1)
         ELSE chord_loop(b, nbrs, i + 1)

\* A plausible slip: chord_reveal without the comparison of the number of
\* flagged neighbours with adjacent_mines.
chord_reveal_rejects_count_unchecked(row, col) ==
    \/ game_state # PLAYING
    \/ ~InBounds(rows, cols, row, col)
    \/ grid[<<row, col>>].state # REVEALED
    \/ grid[<<row, col>>].is_mine

\* The early returns of chord_reveal: the call fails and changes nothing.
chord_reveal_rejects(row, col) ==
    \/ game_state # PLAYING
    \/ ~InBounds(rows, cols, row, col)
    \/ grid[<<row, col>>].state # REVEALED
    \/ grid[<<row, col>>].is_mine
    \/ flagged_count(grid, get_neighbors(rows, cols, row, col), 1)
          # grid[<<row, col>>].adjacent_mines

\* Minesweeper.chord_reveal(row, col)
chord_reveal(row, col) ==
    /\ call' = [op |-> "chord_reveal", row |-> row, col |-> col]
    /\ IF chord_reveal_rejects(row, col)
       THEN /\ result' = FALSE
            /\ UNCHANGED board
       ELSE \E r \in {chord_loop([grid |-> grid,
                                   cells_revealed |-> cells_revealed,
                                   game_state |-> game_state],
                                  get_neighbors(rows, cols, row, col), 1)} :
            \E b \in {check_win(r.b, r.ok)} :
               /\ grid' = b.grid
               /\ cells_revealed' = b.cells_revealed
               /\ game_state' = b.game_state
               /\ result' = r.ok
               /\ UNCHANGED <<rows, cols, total_mines, first_move,
                              flags_placed, total_safe_cells>>

\* A plausible slip: the count of the remaining mines is clamped at 0.
get_remaining_mines_clamped ==
    IF total_mines - flags_placed < 0 THEN 0 ELSE total_mines - flags_placed

\* Minesweeper.get_remaining_mines(): a query, it writes nothing.
get_remaining_mines == total_mines - flags_placed

\* A plausible slip: reset forgets the mine count with the mines.
reset_clears_mine_count ==
    /\ call' = [op |-> "reset"]
    /\ result' = TRUE
    /\ game_state' = PLAYING
    /\ first_move' = TRUE
    /\ flags_placed' = 0
    /\ cells_revealed' = 0
    /\ grid' = [p \in DOMAIN grid |-> Cell]
    /\ total_mines' = 0
    /\ total_safe_cells' = rows * cols
    /\ UNCHANGED <<rows, cols>>

\* A plausible slip: reset hides the cells and leaves the mines in place.
reset_keeps_mines ==
    /\ call' = [op |-> "reset"]
    /\ result' = TRUE
    /\ game_state' = PLAYING
    /\ first_move' = TRUE
    /\ flags_placed' = 0
    /\ cells_revealed' = 0
    /\ grid' = [p \in DOMAIN grid |-> [grid[p] EXCEPT !.state = HIDDEN]]
    /\ UNCHANGED <<rows, cols, total_mines, total_safe_cells>>

\* Minesweeper.reset()
reset ==
    /\ call' = [op |-> "reset"]
    /\ result' = TRUE
    /\ game_state' = PLAYING
    /\ first_move' = TRUE
    /\ flags_placed' = 0
    /\ cells_revealed' = 0
    /\ grid' = [p \in DOMAIN grid |-> Cell]
    /\ UNCHANGED <<rows, cols, total_mines, total_safe_cells>>

----------------------------------------------------------------------------
\* setup_board_from_pattern.  A pattern is the sequence of its lines (what
\* split('\n') yields), a line the sequence of its characters.
Chars == {"*", ".", " "}

RECURSIVE lstrip(_)
lstrip(line) ==
    IF line # <<>> /\ Head(line) = " " THEN lstrip(Tail(line)) ELSE line

RECURSIVE rstrip(_)
rstrip(line) ==
    IF line # <<>> /\ line[Len(line)] = " "
    THEN rstrip(SubSeq(line, 1, Len(line) - 1))
    ELSE line

\* str.strip()
strip(line) == rstrip(lstrip(line))

\* A plausible slip: the blank lines are not filtered out.
pattern_lines_unfiltered(pattern) ==
    [i \in 1 .. Len(pattern) |-> strip(pattern[i])]

\* [line.strip() for line in pattern.strip().split('\n') if line.strip()]:
\* stripping the whole pattern first only removes blank lines and blanks
\* that the per-line strip and the filter remove anyway.
pattern_lines(pattern) ==
    SelectSeq([i \in 1 .. Len(pattern) |-> strip(pattern[i])],
              LAMBDA line : line # <<>>)

\* A plausible slip: the length of the first line is taken for every line.
max_len_first_line(lines, i) == Len(lines[1])

\* max(len(line) for line in lines)
RECURSIVE max_len(_, _)
max_len(lines, i) ==
    IF i > Len(lines) THEN 0
    ELSE LET rest == max_len(lines, i + 1)
         IN IF Len(lines[i]) >= rest THEN Len(lines[i]) ELSE rest

\* The grid after the loop that places the mines of the pattern.
pattern_grid(lines, nrows, ncols) ==
    [p \in Positions(nrows, ncols) |->
        IF p[2] < Len(lines[p[1] + 1]) /\ lines[p[1] + 1][p[2] + 1] = "*"
        THEN [Cell EXCEPT !.is_mine = TRUE]
        ELSE Cell]

\* mine_count
mine_count(g) == Cardinality({p \in DOMAIN g : g[p].is_mine})

\* A plausible slip: the load of a pattern leaves first_move as it is.
setup_board_from_pattern_keeps_first_move(pattern) ==
    /\ call' = [op |-> "setup_board_from_pattern", pattern |-> pattern]
    /\ result' = TRUE
    /\ \E lines \in {pattern_lines(pattern)} :
         IF lines = <<>>
         THEN UNCHANGED board
         ELSE \E ncols \in {max_len(lines, 1)} :
              \E g \in {pattern_grid(lines, Len(lines), ncols)} :
              \E n \in {mine_count(g)} :
                /\ rows' = Len(lines)
                /\ cols' = ncols
                /\ total_mines' = n
                /\ total_safe_cells' = Len(lines) * ncols - n
                /\ UNCHANGED first_move
                /\ flags_placed' = 0
                /\ cells_revealed' = 0
                /\ game_state' = PLAYING
                /\ grid' = calculate_adjacent_mines(Len(lines), ncols, g)

setup_board_from_pattern(pattern) ==
    /\ call' = [op |-> "setup_board_from_pattern", pattern |-> pattern]
    /\ result' = TRUE
    /\ \E lines \in {pattern_lines(pattern)} :
         IF lines = <<>>
         THEN UNCHANGED board
         ELSE \E ncols \in {max_len(lines, 1)} :
              \E g \in {pattern_grid(lines, Len(lines), ncols)} :
              \E n \in {mine_count(g)} :
                /\ rows' = Len(lines)
                /\ cols' = ncols
                /\ total_mines' = n
                /\ total_safe_cells' = Len(lines) * ncols - n
                /\ first_move' = FALSE
                /\ flags_placed' = 0
                /\ cells_revealed' = 0
                /\ game_state' = PLAYING
                /\ grid' = calculate_adjacent_mines(Len(lines), ncols, g)

\* The patterns explored.
Lines == UNION {[1 .. n -> Chars] : n \in 0 .. MaxLineLen}
Patterns == UNION {[1 .. n -> Lines] : n \in 0 .. MaxLines}

\* A pattern of several lines is loaded into a newly constructed board, a
\* pattern of at most one line into a board in any state.
OneLinePatterns == {<<>>} \cup {<<line>> : line \in Lines}
ExploredPatterns ==
    IF call.op = "__init__" THEN Patterns ELSE OneLinePatterns

\* The exploration places at most MaxFlags flags at a time (removing a
\* flag, and every call that fails, is always explored).
WithinFlagBound(row, col) ==
    ~ (/\ flags_placed >= MaxFlags
       /\ game_state = PLAYING
       /\ InBounds(rows, cols, row, col)
       /\ grid[<<row, col>>].state = HIDDEN)

Next ==
    \/ \E p \in Args : reveal(p[1], p[2])
    \/ \E p \in Args : WithinFlagBound(p[1], p[2]) /\ flag(p[1], p[2])
    \/ \E p \in Args : chord_reveal(p[1], p[2])
    \/ reset
    \/ \E pattern \in ExploredPatterns : setup_board_from_pattern(pattern)

Spec == Init /\ [][Next]_vars

----------------------------------------------------------------------------
\* Vocabulary of the properties.
Mines == {p \in DOMAIN grid : grid[p].is_mine}
SafeCells == {p \in DOMAIN grid : ~grid[p].is_mine}
CellsIn(st) == {p \in DOMAIN grid : grid[p].state = st}
IsCellCall == call.op \in {"reveal", "flag", "chord_reveal"}
CallInBounds == IsCellCall /\ InBounds(rows, cols, call.row, call.col)

\* The step is a call of reveal that passes every early return, on a board
\* with no REVEALED cell: the first reveal of a game.
FirstRevealStep ==
    /\ call'.op = "reveal"
    /\ ~reveal_rejects(call'.row, call'.col)
    /\ \A p \in DOMAIN grid : grid[p].state # REVEALED

\* After the step the cell of the call and its neighbours hold no mine.
SafeZoneAfterStep ==
    \A p \in {<<call'.row, call'.col>>}
                \cup NeighborSet(rows, cols, call'.row, call'.col) :
        ~grid'[p].is_mine

----------------------------------------------------------------------------
\* C1: once game_state is WON or LOST, every call of reveal, flag and
\* chord_reveal returns False and leaves every field of the board (each
\* cell's state, is_mine and adjacent_mines, both counters, first_move and
\* game_state) unchanged.
C1_TerminalCallsChangeNothing ==
    [][(game_state \in {WON, LOST}
          /\ call'.op \in {"reveal", "flag", "chord_reveal"})
       => (result' = FALSE /\ UNCHANGED board)]_vars

\* A flag call on a HIDDEN cell of a lost game: it would toggle the cell if
\* the game were still PLAYING.
C1_Witness ==
    /\ game_state = LOST
    /\ call.op = "flag"
    /\ CallInBounds
    /\ grid[<<call.row, call.col>>].state = HIDDEN
    /\ result = FALSE

\* C2 as stated: the first reveal on any board never loses and leaves no
\* mine on the revealed cell and its neighbours.
C2_FirstRevealSafeOnAnyBoard ==
    [][FirstRevealStep
       => (game_state' # LOST /\ SafeZoneAfterStep)]_vars

\* C2 as amended: the first reveal on a board whose mines are not placed yet
\* (first_move is True: constructed from dimensions, or reset) never loses,
\* and after it neither the revealed cell nor a neighbour of it is a mine.
C2_FirstRevealSafeWhenDeferred ==
    [][(FirstRevealStep /\ first_move)
       => (game_state' # LOST /\ result' = TRUE /\ SafeZoneAfterStep)]_vars

\* A successful reveal after which the grid holds mines, fewer of them than
\* total_mines: the mines were placed by this game's first reveal, around
\* the cell that it revealed.
C2_Witness ==
    /\ call.op = "reveal"
    /\ result = TRUE
    /\ ~first_move
    /\ Mines # {}
    /\ Cardinality(Mines) < total_mines
    /\ CellsIn(REVEALED) \subseteq
          ({<<call.row, call.col>>}
              \cup NeighborSet(rows, cols, call.row, call.col))

\* C3 as stated: after a reveal or chord_reveal that passes its early
\* returns, if every non-mine cell is REVEALED then the game is WON and
\* every cell of the board is REVEALED.
C3_AllSafeRevealedIsWon ==
    [][(/\ \/ call'.op = "reveal" /\ ~reveal_rejects(call'.row, call'.col)
           \/ call'.op = "chord_reveal"
                 /\ ~chord_reveal_rejects(call'.row, call'.col)
        /\ are_all_safe_cells_revealed(grid'))
       => (game_state' = WON
             /\ \A p \in DOMAIN grid' : grid'[p].state = REVEALED)]_vars

\* C3 as amended: on a board with at least one non-mine cell, in every
\* state in which every non-mine cell is REVEALED the game is WON and every
\* cell, the mines and the cells that were flagged included, is REVEALED.
C3_AllSafeRevealedIsWonIfSafeCell ==
    (SafeCells # {} /\ are_all_safe_cells_revealed(grid))
        => (game_state = WON /\ \A p \in DOMAIN grid : grid[p].state = REVEALED)

\* A game won by a reveal or a chord while a flag was on a mine.
C3_Witness ==
    /\ call.op \in {"reveal", "chord_reveal"}
    /\ result = TRUE
    /\ game_state = WON
    /\ SafeCells # {}
    /\ Mines # {}
    /\ flags_placed > 0

\* C4: reveal on a HIDDEN mine while PLAYING sets game_state to LOST,
\* returns False and changes the state of the clicked cell only.
C4_MineRevealTouchesClickedCellOnly ==
    [][(/\ call'.op = "reveal"
        /\ game_state = PLAYING
        /\ InBounds(rows, cols, call'.row, call'.col)
        /\ grid[<<call'.row, call'.col>>].state = HIDDEN
        /\ grid[<<call'.row, call'.col>>].is_mine)
       => (/\ game_state' = LOST
           /\ result' = FALSE
           /\ grid' = [grid EXCEPT ![<<call'.row, call'.col>>].state
                                       = REVEALED])]_vars

\* A game lost by revealing a mine that has a HIDDEN neighbour, while
\* another mine is HIDDEN.
C4_Witness ==
    /\ call.op = "reveal"
    /\ result = FALSE
    /\ game_state = LOST
    /\ CallInBounds
    /\ grid[<<call.row, call.col>>].is_mine
    /\ grid[<<call.row, call.col>>].state = REVEALED
    /\ \E p \in NeighborSet(rows, cols, call.row, call.col) :
          grid[p].state = HIDDEN
    /\ \E p \in Mines : grid[p].state = HIDDEN

\* C5: in every reachable state flags_placed equals the number of FLAGGED
\* cells.
C5_FlagsPlacedCountsFlagged ==
    flags_placed = Cardinality(CellsIn(FLAGGED))

\* C6 as stated: in every reachable state cells_revealed equals the number
\* of REVEALED cells.
C6_CellsRevealedCountsRevealed ==
    cells_revealed = Cardinality(CellsIn(REVEALED))

\* C6 as amended: cells_revealed equals the number of REVEALED cells in
\* every state that is not WON, and the number of REVEALED non-mine cells
\* in every WON state (the mines revealed by the win are not counted).
C6_CellsRevealedCountsRevealedButWinMines ==
    cells_revealed =
        IF game_state = WON
        THEN Cardinality(CellsIn(REVEALED) \ Mines)
        ELSE Cardinality(CellsIn(REVEALED))

\* A lost game: the revealed mine is counted, with a safe cell revealed
\* before it.
C6_Witness ==
    /\ game_state = LOST
    /\ cells_revealed >= 2
    /\ \E p \in Mines : grid[p].state = REVEALED

\* C7: in every WON state cells_revealed equals the number of non-mine
\* cells of the board, and the mines are REVEALED with game_state still WON.
C7_WinRevealIsCosmetic ==
    game_state = WON
        => (/\ cells_revealed = Cardinality(SafeCells)
            /\ \A p \in Mines : grid[p].state = REVEALED)

\* A won game on a board with mines.
C7_Witness ==
    /\ game_state = WON
    /\ Mines # {}
    /\ call.op \in {"reveal", "chord_reveal"}
    /\ result = TRUE

\* C8: while PLAYING, reveal returns False and changes nothing when the
\* coordinates are out of bounds or the target is FLAGGED or REVEALED.
C8_RevealRejectsChangeNothing ==
    [][(/\ call'.op = "reveal"
        /\ game_state = PLAYING
        /\ \/ ~InBounds(rows, cols, call'.row, call'.col)
           \/ grid[<<call'.row, call'.col>>].state \in {FLAGGED, REVEALED})
       => (result' = FALSE /\ UNCHANGED board)]_vars

\* A reveal of a FLAGGED cell on a fresh board: no mine was placed and
\* first_move is still True.
C8_Witness ==
    /\ call.op = "reveal"
    /\ result = FALSE
    /\ game_state = PLAYING
    /\ first_move
    /\ CallInBounds
    /\ grid[<<call.row, call.col>>].state = FLAGGED

\* C9: while PLAYING and in bounds, flag on a HIDDEN cell makes it FLAGGED
\* and adds 1 to flags_placed, flag on a FLAGGED cell makes it HIDDEN and
\* subtracts 1, and both return True; two flag calls in a row on a HIDDEN
\* cell so restore the cell and the counter.
C9_FlagToggles ==
    [][(/\ call'.op = "flag"
        /\ game_state = PLAYING
        /\ InBounds(rows, cols, call'.row, call'.col)
        /\ grid[<<call'.row, call'.col>>].state # REVEALED)
       => (/\ result' = TRUE
           /\ IF grid[<<call'.row, call'.col>>].state = HIDDEN
              THEN /\ grid' = [grid EXCEPT ![<<call'.row, call'.col>>].state
                                               = FLAGGED]
                   /\ flags_placed' = flags_placed + 1
              ELSE /\ grid' = [grid EXCEPT ![<<call'.row, call'.col>>].state
                                               = HIDDEN]
                   /\ flags_placed' = flags_placed - 1)]_vars

\* A flag call that took the flag off a cell: the second call of the pair.
C9_Witness ==
    /\ call.op = "flag"
    /\ result = TRUE
    /\ CallInBounds
    /\ grid[<<call.row, call.col>>].state = HIDDEN
    /\ flags_placed = 1

\* C10: flag returns False and changes nothing when the target cell is
\* REVEALED or the coordinates are out of bounds.
C10_FlagRejectsChangeNothing ==
    [][(/\ call'.op = "flag"
        /\ \/ ~InBounds(rows, cols, call'.row, call'.col)
           \/ grid[<<call'.row, call'.col>>].state = REVEALED)
       => (result' = FALSE /\ UNCHANGED board)]_vars

\* A flag call on a REVEALED cell of a game in progress.
C10_Witness ==
    /\ call.op = "flag"
    /\ result = FALSE
    /\ game_state = PLAYING
    /\ CallInBounds
    /\ grid[<<call.row, call.col>>].state = REVEALED

\* The FLAGGED neighbours of a cell.
FlaggedNeighbors(row, col) ==
    {p \in NeighborSet(rows, cols, row, col) : grid[p].state = FLAGGED}

\* The target of a chord: an in-bounds REVEALED non-mine cell with as many
\* FLAGGED neighbours as adjacent_mines.
ChordTarget(row, col) ==
    /\ InBounds(rows, cols, row, col)
    /\ grid[<<row, col>>].state = REVEALED
    /\ ~grid[<<row, col>>].is_mine
    /\ Cardinality(FlaggedNeighbors(row, col))
          = grid[<<row, col>>].adjacent_mines

\* C11: chord_reveal returns True only when the target is an in-bounds
\* REVEALED non-mine cell whose number of FLAGGED neighbours equals its
\* adjacent_mines; in every other case it returns False and changes nothing.
C11_ChordRejectsChangeNothing ==
    [][call'.op = "chord_reveal"
       => /\ result' = TRUE => ChordTarget(call'.row, call'.col)
          /\ ~ChordTarget(call'.row, call'.col)
                => (result' = FALSE /\ UNCHANGED board)]_vars

\* A chord, in a game in progress, on a REVEALED cell with more FLAGGED
\* neighbours than adjacent_mines and with a HIDDEN neighbour to reveal.
C11_Witness ==
    /\ call.op = "chord_reveal"
    /\ result = FALSE
    /\ game_state = PLAYING
    /\ CallInBounds
    /\ grid[<<call.row, call.col>>].state = REVEALED
    /\ Cardinality(FlaggedNeighbors(call.row, call.col))
          > grid[<<call.row, call.col>>].adjacent_mines
    /\ \E p \in NeighborSet(rows, cols, call.row, call.col) :
          grid[p].state = HIDDEN

\* C12: after a chord_reveal that returns True no neighbour of the chorded
\* cell is HIDDEN: every neighbour that was HIDDEN before the call is
\* REVEALED, and where such a neighbour has adjacent_mines 0 the cascade has
\* left none of its own neighbours HIDDEN.
C12_ChordRevealsHiddenNeighbors ==
    [][(call'.op = "chord_reveal" /\ result' = TRUE)
       => \A p \in NeighborSet(rows, cols, call'.row, call'.col) :
             /\ grid'[p].state # HIDDEN
             /\ grid[p].state = HIDDEN
                   => /\ grid'[p].state = REVEALED
                      /\ grid[p].adjacent_mines = 0
                            => \A q \in NeighborSet(rows, cols, p[1], p[2]) :
                                  grid'[q].state # HIDDEN]_vars

\* A chord that returned True and won the game, on a cell with a mine next
\* to it and with a neighbour of adjacent_mines 0: the game was in progress
\* before the call, so the chord revealed the last HIDDEN safe cells.
C12_Witness ==
    /\ call.op = "chord_reveal"
    /\ result = TRUE
    /\ game_state = WON
    /\ grid[<<call.row, call.col>>].adjacent_mines > 0
    /\ \E p \in NeighborSet(rows, cols, call.row, call.col) :
          ~grid[p].is_mine /\ grid[p].adjacent_mines = 0

\* The HIDDEN mines next to a cell.
HiddenMineNeighbors(row, col) ==
    {p \in NeighborSet(rows, cols, row, col) :
        grid[p].is_mine /\ grid[p].state = HIDDEN}

\* The first HIDDEN mine in the enumeration order of the neighbours.
FirstHiddenMineNeighbor(row, col) ==
    LET nbrs == get_neighbors(rows, cols, row, col)
        hit(i) == grid[nbrs[i]].is_mine /\ grid[nbrs[i]].state = HIDDEN
        k == CHOOSE i \in 1 .. Len(nbrs) :
                 hit(i) /\ \A j \in 1 .. i - 1 : ~hit(j)
    IN nbrs[k]

\* C13: a chord_reveal that passes the comparison of the flags while a
\* HIDDEN neighbour is a mine returns False and sets game_state to LOST, and
\* the one mine that the call reveals is the first HIDDEN mine in the
\* enumeration order of the neighbours: every other mine keeps its state.
C13_ChordStopsAtFirstMine ==
    [][(/\ call'.op = "chord_reveal"
        /\ game_state = PLAYING
        /\ ChordTarget(call'.row, call'.col)
        /\ HiddenMineNeighbors(call'.row, call'.col) # {})
       => /\ result' = FALSE
          /\ game_state' = LOST
          /\ {p \in Mines : grid'[p].state # grid[p].state}
                = {FirstHiddenMineNeighbor(call'.row, call'.col)}
          /\ grid'[FirstHiddenMineNeighbor(call'.row, call'.col)].state
                = REVEALED]_vars

\* A chord that lost the game on a cell that meets the comparison of the
\* flags (two flags on safe cells) with two unflagged mines next to it: one
\* of the mines is REVEALED, the other one is still HIDDEN.
C13_Witness ==
    /\ call.op = "chord_reveal"
    /\ result = FALSE
    /\ game_state = LOST
    /\ CallInBounds
    /\ ChordTarget(call.row, call.col)
    /\ flags_placed = 2
    /\ HiddenMineNeighbors(call.row, call.col) # {}
    /\ Cardinality({p \in Mines : grid[p].state = REVEALED}) = 1
    /\ \E p \in NeighborSet(rows, cols, call.row, call.col) :
          grid[p].is_mine /\ grid[p].state = REVEALED

\* C14 as stated: every cell that is FLAGGED when reveal or chord_reveal is
\* called is still FLAGGED when the call returns.
C14_FlaggedStaysFlagged ==
    [][call'.op \in {"reveal", "chord_reveal"}
       => \A p \in DOMAIN grid :
             grid[p].state = FLAGGED => grid'[p].state = FLAGGED]_vars

\* C14 as amended: a cell that is FLAGGED when reveal or chord_reveal is
\* called is still FLAGGED when the call returns, unless the call wins the
\* game: then the cell is a mine and the win has made it REVEALED.
C14_FlaggedStaysFlaggedUnlessWon ==
    [][call'.op \in {"reveal", "chord_reveal"}
       => \A p \in DOMAIN grid :
             grid[p].state = FLAGGED
                => IF game_state = PLAYING /\ game_state' = WON
                   THEN grid'[p].is_mine /\ grid'[p].state = REVEALED
                   ELSE grid'[p].state = FLAGGED]_vars

\* A reveal of a cell with adjacent_mines 0, in a game still in progress
\* after it: the cascade has passed over a FLAGGED neighbour.
C14_Witness ==
    /\ call.op = "reveal"
    /\ result = TRUE
    /\ game_state = PLAYING
    /\ grid[<<call.row, call.col>>].adjacent_mines = 0
    /\ FlaggedNeighbors(call.row, call.col) # {}

\* The step is a reveal of a HIDDEN cell, in a game in progress, that turns
\* out to be a safe cell with adjacent_mines 0 (the mines of a first reveal
\* are placed by the step itself).
ZeroCellRevealStep ==
    /\ call'.op = "reveal"
    /\ game_state = PLAYING
    /\ InBounds(rows, cols, call'.row, call'.col)
    /\ grid[<<call'.row, call'.col>>].state = HIDDEN
    /\ ~grid'[<<call'.row, call'.col>>].is_mine
    /\ grid'[<<call'.row, call'.col>>].adjacent_mines = 0

\* C15 as stated: a reveal of a HIDDEN safe cell with adjacent_mines 0 that
\* has a safe neighbour with adjacent_mines 0 leaves more than one REVEALED
\* cell on the board.
C15_ZeroCellCascades ==
    [][(/\ ZeroCellRevealStep
        /\ \E q \in NeighborSet(rows, cols, call'.row, call'.col) :
              ~grid'[q].is_mine /\ grid'[q].adjacent_mines = 0)
       => Cardinality({p \in DOMAIN grid' : grid'[p].state = REVEALED})
             > 1]_vars

\* C15 as amended: a reveal of a HIDDEN safe cell with adjacent_mines 0 that
\* has a safe neighbour with adjacent_mines 0 which is not FLAGGED leaves
\* more than one REVEALED cell on the board, that neighbour among them.
C15_ZeroCellCascadesToUnflagged ==
    [][ZeroCellRevealStep
       => \A q \in NeighborSet(rows, cols, call'.row, call'.col) :
             (/\ ~grid'[q].is_mine
              /\ grid'[q].adjacent_mines = 0
              /\ grid[q].state # FLAGGED)
                => /\ grid'[q].state = REVEALED
                   /\ Cardinality({p \in DOMAIN grid' :
                                      grid'[p].state = REVEALED}) > 1]_vars

\* A reveal of a cell with adjacent_mines 0 that opened a neighbour with
\* adjacent_mines 0 and, through it, a cell that is not next to the cell of
\* the call.
C15_Witness ==
    /\ call.op = "reveal"
    /\ result = TRUE
    /\ CallInBounds
    /\ grid[<<call.row, call.col>>].adjacent_mines = 0
    /\ \E q \in NeighborSet(rows, cols, call.row, call.col) :
          /\ grid[q].state = REVEALED
          /\ grid[q].adjacent_mines = 0
          /\ \E p \in NeighborSet(rows, cols, q[1], q[2]) :
                /\ p \notin NeighborSet(rows, cols, call.row, call.col)
                /\ p # <<call.row, call.col>>
                /\ grid[p].state = REVEALED
                /\ ~grid[p].is_mine

\* The step moves game_state from PLAYING to LOST or to WON as the engine
\* specifies: to LOST by a reveal or a chord that reveals a mine and returns
\* False, to WON by a reveal or a chord that returns True and leaves every
\* non-mine cell REVEALED.
PlayingToTerminalStep ==
    /\ game_state = PLAYING
    /\ call'.op \in {"reveal", "chord_reveal"}
    /\ \/ /\ game_state' = LOST
          /\ result' = FALSE
          /\ \E p \in DOMAIN grid :
                /\ grid'[p].is_mine
                /\ grid[p].state = HIDDEN
                /\ grid'[p].state = REVEALED
       \/ /\ game_state' = WON
          /\ result' = TRUE
          /\ are_all_safe_cells_revealed(grid')

\* C16 as stated: game_state only changes from PLAYING to LOST or to WON,
\* and from WON or LOST back to PLAYING by reset alone.
C16_GameStateMachineResetOnly ==
    [][game_state' # game_state
       => \/ PlayingToTerminalStep
          \/ /\ game_state \in {WON, LOST}
             /\ game_state' = PLAYING
             /\ call'.op = "reset"]_vars

\* C16 as amended: game_state only changes from PLAYING to LOST (a mine was
\* revealed) or to WON (the win check succeeded after a reveal or a chord),
\* and from WON or LOST back to PLAYING by reset or by a pattern load; it
\* never changes from WON to LOST or from LOST to WON.
C16_GameStateMachine ==
    [][game_state' # game_state
       => \/ PlayingToTerminalStep
          \/ /\ game_state \in {WON, LOST}
             /\ game_state' = PLAYING
             /\ call'.op \in {"reset", "setup_board_from_pattern"}]_vars

\* A game on a board with two mines won by a reveal.
C16_Witness ==
    /\ game_state = WON
    /\ call.op = "reveal"
    /\ result = TRUE
    /\ Cardinality(Mines) = 2

\* C17: reset, called in any state, yields a board with every cell HIDDEN,
\* no cell a mine, every adjacent_mines 0, both counters 0, game_state
\* PLAYING and first_move True, with rows, cols, total_mines and
\* total_safe_cells unchanged.
C17_ResetClearsBoard ==
    [][call'.op = "reset"
       => /\ DOMAIN grid' = Positions(rows, cols)
          /\ \A p \in DOMAIN grid' :
                /\ grid'[p].state = HIDDEN
                /\ ~grid'[p].is_mine
                /\ grid'[p].adjacent_mines = 0
          /\ cells_revealed' = 0
          /\ flags_placed' = 0
          /\ game_state' = PLAYING
          /\ first_move'
          /\ UNCHANGED <<rows, cols, total_mines, total_safe_cells>>]_vars

\* A reset of a board that was loaded from a pattern: it keeps a mine count
\* that no constructed board of the exploration has.
C17_Witness ==
    /\ call.op = "reset"
    /\ first_move
    /\ total_mines > MaxMines
    /\ total_safe_cells = rows * cols - total_mines

\* C18: right after construction with (rows, cols, mines) all of the
\* rows * cols cells are HIDDEN, no cell is a mine, both counters are 0,
\* game_state is PLAYING, first_move is True and total_safe_cells is
\* rows * cols - mines.
C18_ConstructedBoard ==
    call.op = "__init__"
       => /\ DOMAIN grid = Positions(rows, cols)
          /\ Cardinality(DOMAIN grid) = rows * cols
          /\ \A p \in DOMAIN grid : grid[p].state = HIDDEN /\ ~grid[p].is_mine
          /\ cells_revealed = 0
          /\ flags_placed = 0
          /\ game_state = PLAYING
          /\ first_move
          /\ total_safe_cells = rows * cols - total_mines

\* A board constructed with more mines than cells.
C18_Witness ==
    /\ call.op = "__init__"
    /\ total_mines > rows * cols
    /\ total_safe_cells < 0

\* The lines of a pattern that hold a character other than a blank.
NonBlankLines(pattern) ==
    SelectSeq(pattern, LAMBDA line : \E i \in 1 .. Len(line) : line[i] # " ")

\* The length of the longest of the lines ls.
LongestLine(ls) ==
    IF ls = <<>> THEN 0
    ELSE CHOOSE n \in {Len(ls[i]) : i \in 1 .. Len(ls)} :
            \A i \in 1 .. Len(ls) : Len(ls[i]) <= n

\* After the step the board is the one that the lines ls describe: one row
\* per line, as many columns as the longest line has characters, a mine
\* exactly where a line has '*', everything else a safe cell, and a new game.
BoardLoadedFrom(ls) ==
    /\ rows' = Len(ls)
    /\ cols' = LongestLine(ls)
    /\ DOMAIN grid' = Positions(rows', cols')
    /\ \A p \in DOMAIN grid' :
          /\ grid'[p].is_mine
                <=> (p[2] < Len(ls[p[1] + 1]) /\ ls[p[1] + 1][p[2] + 1] = "*")
          /\ grid'[p].state = HIDDEN
    /\ total_mines' = Cardinality({p \in DOMAIN grid' : grid'[p].is_mine})
    /\ total_safe_cells' = rows' * cols' - total_mines'
    /\ ~first_move'
    /\ flags_placed' = 0
    /\ cells_revealed' = 0
    /\ game_state' = PLAYING

\* C19 as stated: after a pattern load the board is the one that the
\* non-blank lines of the pattern describe, character by character.
C19_PatternLoadBuildsBoard ==
    [][call'.op = "setup_board_from_pattern"
       => BoardLoadedFrom(NonBlankLines(call'.pattern))]_vars

\* C19 as amended: after the load of a pattern with at least one non-blank
\* line the board is the one that the non-blank lines describe once the
\* blanks at both ends of each line are taken off, whatever the state of
\* the board was before.
C19_PatternLoadBuildsBoardFromTrimmedLines ==
    [][(/\ call'.op = "setup_board_from_pattern"
        /\ NonBlankLines(call'.pattern) # <<>>)
       => LET nb == NonBlankLines(call'.pattern)
          IN BoardLoadedFrom([i \in 1 .. Len(nb) |-> strip(nb[i])])]_vars

\* The load of a pattern with a blank before a mine in one line and a second
\* line that is shorter once trimmed: the board has two rows of one column.
C19_Witness ==
    /\ call.op = "setup_board_from_pattern"
    /\ Len(call.pattern) = 2
    /\ call.pattern[1] = <<" ", "*">>
    /\ Len(strip(call.pattern[2])) = 1
    /\ rows = 2
    /\ cols = 1
    /\ grid[<<0, 0>>].is_mine

\* The cells of the grid at a distance of one row and one column at most:
\* the in-bounds orthogonal and diagonal neighbours.
AdjacentCells(p) ==
    {q \in DOMAIN grid :
        /\ q # p
        /\ q[1] - p[1] \in {-1, 0, 1}
        /\ q[2] - p[2] \in {-1, 0, 1}}

\* C20: once the mines are placed (first_move is False, after a pattern load
\* or the first reveal), in every state of the game the adjacent_mines of
\* every non-mine cell is the number of its in-bounds orthogonal and
\* diagonal neighbours that are mines.
C20_AdjacentMinesIsExactCount ==
    ~first_move
       => \A p \in SafeCells :
             grid[p].adjacent_mines
                = Cardinality({q \in AdjacentCells(p) : grid[q].is_mine})

\* A game in progress, some calls after its mines were placed, with a safe
\* cell between two mines.
C20_Witness ==
    /\ ~first_move
    /\ call.op = "flag"
    /\ cells_revealed > 0
    /\ \E p \in SafeCells : grid[p].adjacent_mines = 2

\* C21: flag succeeds on every HIDDEN cell of a game in progress whatever
\* flags_placed and total_mines are, and get_remaining_mines is
\* total_mines - flags_placed, unclamped: it is negative as soon as more
\* cells are FLAGGED than the board has mines.
C21_OverFlaggingNotClamped ==
    [][/\ (/\ call'.op = "flag"
           /\ game_state = PLAYING
           /\ InBounds(rows, cols, call'.row, call'.col)
           /\ grid[<<call'.row, call'.col>>].state = HIDDEN)
          => /\ result' = TRUE
             /\ grid'[<<call'.row, call'.col>>].state = FLAGGED
             /\ flags_placed' = flags_placed + 1
       /\ get_remaining_mines' = total_mines' - flags_placed'
       /\ Cardinality({p \in DOMAIN grid' : grid'[p].state = FLAGGED})
             > total_mines'
          => get_remaining_mines' < 0]_vars

\* A flag placed on a board with one mine that already had a flag: two cells
\* are FLAGGED and get_remaining_mines is -1.
C21_Witness ==
    /\ call.op = "flag"
    /\ result = TRUE
    /\ total_mines = 1
    /\ Cardinality(CellsIn(FLAGGED)) = 2
    /\ get_remaining_mines = -1

\* C22: the load of a pattern with no non-blank line leaves every field of
\* the board as it was (rows, cols, grid, total_mines, total_safe_cells,
\* both counters, first_move and game_state) and completes without error.
C22_BlankPatternChangesNothing ==
    [][(/\ call'.op = "setup_board_from_pattern"
        /\ NonBlankLines(call'.pattern) = <<>>)
       => (UNCHANGED board /\ result' = TRUE)]_vars

\* The load of a pattern of one line of blanks into a lost game: the game
\* is still lost.
C22_Witness ==
    /\ call.op = "setup_board_from_pattern"
    /\ Len(call.pattern) = 1
    /\ call.pattern[1] # <<>>
    /\ NonBlankLines(call.pattern) = <<>>
    /\ game_state = LOST
    /\ cells_revealed > 0

\* C23: game_state is WON only if every non-mine cell is REVEALED: while a
\* non-mine cell is not REVEALED the game is not WON, a successful reveal
\* or chord leaves it PLAYING, and this is so even when cells_revealed has
\* reached total_safe_cells.
C23_NoPrematureWin ==
    (\E p \in SafeCells : grid[p].state # REVEALED)
       => /\ game_state # WON
          /\ (call.op \in {"reveal", "chord_reveal"} /\ result = TRUE)
                => game_state = PLAYING

\* A successful reveal after which cells_revealed equals total_safe_cells
\* while a safe cell, under a flag, is not REVEALED: the game goes on.
C23_Witness ==
    /\ call.op = "reveal"
    /\ result = TRUE
    /\ game_state = PLAYING
    /\ cells_revealed = total_safe_cells
    /\ \E p \in SafeCells : grid[p].state = FLAGGED

\* C24 as stated: in every PLAYING state no mine is REVEALED and at least
\* one non-mine cell is not REVEALED.
C24_PlayingHasHiddenSafeCell ==
    game_state = PLAYING
       => /\ \A p \in Mines : grid[p].state # REVEALED
          /\ \E p \in SafeCells : grid[p].state # REVEALED

\* C24 as amended: in every PLAYING state no mine is REVEALED and, on a
\* board that has a non-mine cell, at least one non-mine cell is not
\* REVEALED.
C24_PlayingHasHiddenSafeCellIfAny ==
    game_state = PLAYING
       => /\ \A p \in Mines : grid[p].state # REVEALED
          /\ SafeCells # {} => \E p \in SafeCells : grid[p].state # REVEALED

\* A game in progress after a successful reveal, with a mine on the board
\* and one safe cell left to reveal.
C24_Witness ==
    /\ game_state = PLAYING
    /\ call.op = "reveal"
    /\ result = TRUE
    /\ Mines # {}
    /\ Cardinality({p \in SafeCells : grid[p].state # REVEALED}) = 1

\* The exclusion set of a first reveal at p: p and its in-bounds neighbours.
ExclusionSet(p) == {p} \cup AdjacentCells(p)

\* C25: on a board whose mines are not placed yet, the reveal at (r, c) that
\* passes its preconditions places min(total_mines, number of cells outside
\* of the exclusion set) mines, all of them outside of the exclusion set of
\* (r, c), and then reveals the cell as a safe cell; a total_mines larger
\* than the number of available cells is no error.
C25_DeferredPlacement ==
    [][(/\ call'.op = "reveal"
        /\ first_move
        /\ game_state = PLAYING
        /\ InBounds(rows, cols, call'.row, call'.col)
        /\ grid[<<call'.row, call'.col>>].state = HIDDEN)
       => LET excl == ExclusionSet(<<call'.row, call'.col>>)
              mines == {p \in DOMAIN grid' : grid'[p].is_mine}
          IN /\ Cardinality(mines)
                   = Min(total_mines, Cardinality(DOMAIN grid \ excl))
             /\ mines \cap excl = {}
             /\ ~first_move'
             /\ result' = TRUE
             /\ grid'[<<call'.row, call'.col>>].state = REVEALED
             /\ grid'[<<call'.row, call'.col>>].adjacent_mines = 0]_vars

\* A first reveal on a board constructed with two mines on which a single
\* cell was outside of the exclusion set: one mine was placed.
C25_Witness ==
    /\ call.op = "reveal"
    /\ result = TRUE
    /\ ~first_move
    /\ total_mines = 2
    /\ Cardinality(Mines) = 1
    /\ Cardinality(DOMAIN grid \ ExclusionSet(<<call.row, call.col>>)) = 1
    /\ Mines \cap ExclusionSet(<<call.row, call.col>>) = {}

\* C26: once the mines are placed (first_move is False) no reveal, flag or
\* chord_reveal changes the is_mine or the adjacent_mines of a cell, and
\* first_move stays False: the mines are not placed a second time.
C26_PlacementHappensOnce ==
    [][(~first_move /\ call'.op \in {"reveal", "flag", "chord_reveal"})
       => /\ ~first_move'
          /\ DOMAIN grid' = DOMAIN grid
          /\ \A p \in DOMAIN grid :
                /\ grid'[p].is_mine = grid[p].is_mine
                /\ grid'[p].adjacent_mines = grid[p].adjacent_mines]_vars

\* A successful reveal of a cell next to a mine, which does not cascade, in
\* a game in which cells were revealed before it.
C26_Witness ==
    /\ call.op = "reveal"
    /\ result = TRUE
    /\ game_state = PLAYING
    /\ ~first_move
    /\ grid[<<call.row, call.col>>].adjacent_mines > 0
    /\ cells_revealed >= 2

\* The reference closure of a cascade: the smallest set that contains S and,
\* for each of its safe cells with adjacent_mines 0 in the grid ga, every
\* neighbour that is HIDDEN in the grid gb.
RECURSIVE CascadeClosure(_, _, _)
CascadeClosure(S, ga, gb) ==
    LET T == S \cup {q \in DOMAIN gb :
                       /\ gb[q].state = HIDDEN
                       /\ \E p \in S : /\ ~ga[p].is_mine
                                       /\ ga[p].adjacent_mines = 0
                                       /\ q \in AdjacentCells(p)}
    IN IF T = S THEN S ELSE CascadeClosure(T, ga, gb)

\* C27: a successful reveal of a HIDDEN cell X makes REVEALED exactly the
\* cells of the reference closure of X (taken with the cell states at the
\* start of the call); every other cell keeps its state, apart from the
\* mines that a winning call reveals, and cells_revealed grows by the size
\* of the closure.
C27_CascadeIsClosure ==
    [][(/\ call'.op = "reveal"
        /\ game_state = PLAYING
        /\ InBounds(rows, cols, call'.row, call'.col)
        /\ grid[<<call'.row, call'.col>>].state = HIDDEN
        /\ result' = TRUE)
       => LET S == CascadeClosure({<<call'.row, call'.col>>}, grid', grid)
          IN /\ \A p \in S : grid[p].state = HIDDEN
                                /\ grid'[p].state = REVEALED
             /\ \A p \in DOMAIN grid \ S :
                   \/ grid'[p].state = grid[p].state
                   \/ /\ game_state' = WON
                      /\ grid'[p].is_mine
                      /\ grid'[p].state = REVEALED
             /\ cells_revealed' = cells_revealed + Cardinality(S)]_vars

\* A reveal of a cell with adjacent_mines 0 whose cascade stopped at a cell
\* next to a mine and passed over a FLAGGED cell, in a game that goes on.
C27_Witness ==
    /\ call.op = "reveal"
    /\ result = TRUE
    /\ game_state = PLAYING
    /\ grid[<<call.row, call.col>>].adjacent_mines = 0
    /\ \E p \in AdjacentCells(<<call.row, call.col>>) :
          grid[p].state = REVEALED /\ grid[p].adjacent_mines > 0
    /\ \E p \in AdjacentCells(<<call.row, call.col>>) :
          grid[p].state = FLAGGED
    /\ \E p \in SafeCells : grid[p].state = HIDDEN

\* The cells that the step reveals through _reveal_cell: those that leave
\* HIDDEN for REVEALED, the mines shown by a win apart.
RevealedByCascade ==
    {p \in DOMAIN grid :
        /\ grid[p].state = HIDDEN
        /\ grid'[p].state = REVEALED
        /\ ~(game_state' = WON /\ grid'[p].is_mine)}

\* C28: every call of reveal and chord_reveal completes, and it reveals
\* each cell once at most: cells_revealed, which counts the recursive
\* reveals one by one, grows by the number of the cells that the call took
\* from HIDDEN to REVEALED, rows * cols at most.
C28_RevealsBoundedByBoard ==
    [][call'.op \in {"reveal", "chord_reveal"}
       => /\ result' \in BOOLEAN
          /\ cells_revealed' - cells_revealed = Cardinality(RevealedByCascade)
          /\ cells_revealed' - cells_revealed <= rows * cols
          /\ cells_revealed' <= rows * cols]_vars

\* A reveal that left the six cells of a board of two rows and three
\* columns without a mine REVEALED, each of them counted once.
C28_Witness ==
    /\ call.op = "reveal"
    /\ result = TRUE
    /\ rows * cols = 6
    /\ cells_revealed = 6
    /\ grid[<<call.row, call.col>>].adjacent_mines = 0
    /\ \A p \in DOMAIN grid : ~grid[p].is_mine /\ grid[p].adjacent_mines = 0

\* C29: under reveal, flag and chord_reveal a REVEALED cell stays REVEALED,
\* and a cell changes between HIDDEN and FLAGGED by a successful flag call
\* on that cell only.
C29_RevealedIsMonotonic ==
    [][call'.op \in {"reveal", "flag", "chord_reveal"}
       => \A p \in DOMAIN grid :
             /\ grid[p].state = REVEALED => grid'[p].state = REVEALED
             /\ (/\ grid[p].state \in {HIDDEN, FLAGGED}
                 /\ grid'[p].state \in {HIDDEN, FLAGGED}
                 /\ grid'[p].state # grid[p].state)
                   => /\ call'.op = "flag"
                      /\ p = <<call'.row, call'.col>>
                      /\ result' = TRUE]_vars

\* A flag taken off a cell, back to HIDDEN, next to a REVEALED cell that
\* the two flag calls left REVEALED.
C29_Witness ==
    /\ call.op = "flag"
    /\ result = TRUE
    /\ game_state = PLAYING
    /\ CallInBounds
    /\ grid[<<call.row, call.col>>].state = HIDDEN
    /\ \E p \in AdjacentCells(<<call.row, call.col>>) :
          grid[p].state = REVEALED

\* C30: rows, cols, total_mines and total_safe_cells are set by the
\* construction and by a pattern load only: no reveal (the one that places
\* the mines included), flag, chord_reveal or reset changes them.
C30_DimensionsAndMineCountFixed ==
    [][call'.op \in {"reveal", "flag", "chord_reveal", "reset"}
       => UNCHANGED <<rows, cols, total_mines, total_safe_cells>>]_vars

\* A first reveal that placed fewer mines than total_mines: total_mines and
\* total_safe_cells are those of the construction, not those of the grid.
C30_Witness ==
    /\ call.op = "reveal"
    /\ result = TRUE
    /\ ~first_move
    /\ total_safe_cells = rows * cols - total_mines
    /\ total_safe_cells < Cardinality(SafeCells)
    /\ cells_revealed > 0

----------------------------------------------------------------------------
\* The outcome of a cell call (op, row, col) when no mine is drawn: the
\* board and the return value as functions of the state before the call.
RevealedBoard(b, ok) ==
    [board |-> <<rows, cols, total_mines, b.game_state, FALSE, b.grid,
                 flags_placed, b.cells_revealed, total_safe_cells>>,
     result |-> ok]

OutcomeWithoutPlacement(op, row, col) ==
    IF op = "reveal"
    THEN IF reveal_rejects(row, col)
         THEN [board |-> board, result |-> FALSE]
         ELSE LET r == reveal_cell([grid |-> grid,
                                    cells_revealed |-> cells_revealed,
                                    game_state |-> game_state], row, col)
              IN RevealedBoard(check_win(r.b, r.ok), r.ok)
    ELSE IF op = "flag"
    THEN IF flag_rejects(row, col)
         THEN [board |-> board, result |-> FALSE]
         ELSE LET t == toggle_flag(grid, flags_placed, row, col)
              IN [board |-> <<rows, cols, total_mines, game_state,
                              first_move, t.grid, t.flags_placed,
                              cells_revealed, total_safe_cells>>,
                  result |-> TRUE]
    ELSE IF chord_reveal_rejects(row, col)
         THEN [board |-> board, result |-> FALSE]
         ELSE LET r == chord_loop([grid |-> grid,
                                   cells_revealed |-> cells_revealed,
                                   game_state |-> game_state],
                                  get_neighbors(rows, cols, row, col), 1)
              IN RevealedBoard(check_win(r.b, r.ok), r.ok)

\* C31: on a board loaded from a pattern the engine is deterministic.  The
\* load of a pattern with a non-blank line clears first_move and puts a
\* mine exactly where the pattern has '*'; from then on every reveal, flag
\* and chord_reveal leaves first_move False and the mine layout as it is,
\* and the board and the return value after the call are a function of the
\* board before the call and of the arguments (no mine is drawn), so that
\* two runs of the same calls from the same pattern agree step by step.
C31_PatternBoardIsDeterministic ==
    [][/\ (/\ call'.op = "setup_board_from_pattern"
           /\ pattern_lines(call'.pattern) # <<>>)
          => LET ls == pattern_lines(call'.pattern)
             IN /\ first_move' = FALSE
                /\ \A p \in DOMAIN grid' :
                      grid'[p].is_mine
                         <=> (/\ p[2] < Len(ls[p[1] + 1])
                              /\ ls[p[1] + 1][p[2] + 1] = "*")
       /\ (/\ first_move = FALSE
           /\ call'.op \in {"reveal", "flag", "chord_reveal"})
          => /\ first_move' = FALSE
             /\ DOMAIN grid' = DOMAIN grid
             /\ \A p \in DOMAIN grid : grid'[p].is_mine = grid[p].is_mine
             /\ LET o == OutcomeWithoutPlacement(call'.op, call'.row,
                                                 call'.col)
                IN board' = o.board /\ result' = o.result]_vars

\* A successful chord_reveal on a board of two rows and two columns that
\* holds a mine: such a board comes from a pattern only (the first reveal
\* of a constructed board of that size finds no cell to put a mine on), and
\* the chord was preceded by a reveal and a flag on it.
C31_Witness ==
    /\ call.op = "chord_reveal"
    /\ result = TRUE
    /\ rows = 2 /\ cols = 2
    /\ Mines # {}
    /\ first_move = FALSE
    /\ flags_placed > 0

----------------------------------------------------------------------------
\* _get_neighbors as a function of its arguments: a board of up to
\* MaxNeighborRows x MaxNeighborCols cells is constructed without mines and
\* _get_neighbors is applied to any of its cells; call records the
\* arguments, result the list returned.
MaxNeighborRows == 4
MaxNeighborCols == 4

NeighborInit ==
    \E r \in 1 .. MaxNeighborRows, c \in 1 .. MaxNeighborCols :
        /\ rows = r
        /\ cols = c
        /\ total_mines = 0
        /\ game_state = PLAYING
        /\ first_move = TRUE
        /\ grid = NewGrid(r, c)
        /\ flags_placed = 0
        /\ cells_revealed = 0
        /\ total_safe_cells = r * c
        /\ call = [op |-> "__init__"]
        /\ result = <<>>

get_neighbors_call(row, col) ==
    /\ call' = [op |-> "_get_neighbors", row |-> row, col |-> col]
    /\ result' = get_neighbors(rows, cols, row, col)
    /\ UNCHANGED board

NeighborNext == \E p \in Positions(rows, cols) : get_neighbors_call(p[1], p[2])

NeighborSpec == NeighborInit /\ [][NeighborNext]_vars

\* The cells at the offsets {-1, 0, 1} x {-1, 0, 1} of (row, col), the
\* offset (0, 0) apart, that lie inside the grid.
OffsetBlock(row, col) ==
    {<<row + dr, col + dc>> : dr \in {-1, 0, 1}, dc \in {-1, 0, 1}}
        \ {<<row, col>>}

ClippedBlock(row, col) ==
    {p \in OffsetBlock(row, col) :
        p[1] \in 0 .. rows - 1 /\ p[2] \in 0 .. cols - 1}

\* (row, col) is on the first or last row, on the first or last column.
OnRowBorder(row) == row = 0 \/ row = rows - 1
OnColBorder(col) == col = 0 \/ col = cols - 1

\* C32: the list that _get_neighbors returns for (r, c) holds, without
\* duplicates and in the row-major order of the offsets, exactly the cells
\* of the 3x3 block around (r, c) that lie inside the grid, (r, c) apart:
\* never (r, c), never a cell outside of the grid; on a board of at least
\* 3x3 cells it has 3 entries at a corner, 5 on an edge, 8 in the interior.
C32_NeighborsAreClippedBlock ==
    call.op = "_get_neighbors"
    => LET n == result
           r == call.row
           c == call.col
       IN /\ \A i, j \in 1 .. Len(n) : i # j => n[i] # n[j]
          /\ \A i, j \in 1 .. Len(n) :
                i < j => \/ n[i][1] < n[j][1]
                         \/ n[i][1] = n[j][1] /\ n[i][2] < n[j][2]
          /\ {n[i] : i \in 1 .. Len(n)} = ClippedBlock(r, c)
          /\ \A i \in 1 .. Len(n) :
                /\ n[i] # <<r, c>>
                /\ n[i] \in DOMAIN grid
                /\ n[i][1] - r \in {-1, 0, 1}
                /\ n[i][2] - c \in {-1, 0, 1}
          /\ (rows >= 3 /\ cols >= 3)
                => Len(n) = IF OnRowBorder(r) /\ OnColBorder(c) THEN 3
                            ELSE IF OnRowBorder(r) \/ OnColBorder(c) THEN 5
                            ELSE 8

\* The neighbours of an interior cell next to the last row and the last
\* column of a board with an interior: eight cells.
C32_Witness ==
    /\ call.op = "_get_neighbors"
    /\ rows >= 3 /\ cols >= 3
    /\ call.row = rows - 2 /\ call.col = cols - 2
    /\ ~OnRowBorder(call.row) /\ ~OnColBorder(call.col)
    /\ Len(result) = 8
    /\ result[1] = <<call.row - 1, call.col - 1>>
    /\ result[8] = <<rows - 1, cols - 1>>

----------------------------------------------------------------------------
\* The cells that the step takes to REVEALED.
NewlyRevealed == {p \in DOMAIN grid : grid[p].state # REVEALED
                                        /\ grid'[p].state = REVEALED}

\* C33: the cascade never reveals a mine.  Under reveal, flag and
\* chord_reveal a mine becomes REVEALED only as the cell of a reveal call,
\* as a HIDDEN neighbour of the cell of a chord_reveal call, or when the
\* call wins the game (every mine is then shown).  Every cell that
\* _reveal_cell counted in cells_revealed is a safe cell, the mine that a
\* failed call hit directly apart, and no REVEALED safe cell with
\* adjacent_mines 0 has a mine next to it: each recursive _reveal_cell call
\* of the cascade is made on a safe cell and returns True.
C33_CascadeNeverRevealsMine ==
    [][call'.op \in {"reveal", "flag", "chord_reveal"}
       => /\ \A p \in NewlyRevealed :
                grid'[p].is_mine
                   => \/ /\ call'.op = "reveal"
                         /\ p = <<call'.row, call'.col>>
                         /\ result' = FALSE
                      \/ /\ call'.op = "chord_reveal"
                         /\ p \in NeighborSet(rows, cols, call'.row, call'.col)
                         /\ grid[p].state = HIDDEN
                         /\ result' = FALSE
                      \/ /\ game_state' = WON
                         /\ result' = TRUE
          /\ cells_revealed' - cells_revealed
                = Cardinality({p \in NewlyRevealed : ~grid'[p].is_mine})
                     + (IF call'.op # "flag" /\ game_state = PLAYING
                           /\ result' = FALSE /\ game_state' = LOST
                        THEN 1 ELSE 0)
          /\ \A p \in DOMAIN grid' :
                (/\ grid'[p].state = REVEALED
                 /\ ~grid'[p].is_mine
                 /\ grid'[p].adjacent_mines = 0)
                => \A q \in NeighborSet(rows, cols, p[1], p[2]) :
                      ~grid'[q].is_mine]_vars

\* A reveal whose cascade opened at least four cells on a board with a
\* mine and stopped in front of it: the mine is still HIDDEN and the game
\* goes on.
C33_Witness ==
    /\ call.op = "reveal"
    /\ result = TRUE
    /\ game_state = PLAYING
    /\ grid[<<call.row, call.col>>].adjacent_mines = 0
    /\ cells_revealed >= 4
    /\ Mines # {}
    /\ \A p \in Mines : grid[p].state = HIDDEN
    /\ \E p \in Mines : \E q \in AdjacentCells(p) : grid[q].state = REVEALED

----------------------------------------------------------------------------
\* C34: in every state with game_state LOST exactly one mine is REVEALED,
\* the one that the losing reveal or chord_reveal hit, and cells_revealed
\* is the number of the REVEALED cells, that mine included.  (LOST is
\* entered by reveal and chord_reveal only; the calls that follow leave the
\* board as it is until reset or a pattern load starts a new game.)
C34_LostShowsOneMine ==
    game_state = LOST
    => /\ Cardinality({p \in Mines : grid[p].state = REVEALED}) = 1
       /\ cells_revealed = Cardinality(CellsIn(REVEALED))

\* A game lost by a reveal after other cells had been opened, with a second
\* mine on the board that is not REVEALED.
C34_Witness ==
    /\ game_state = LOST
    /\ call.op = "reveal"
    /\ result = FALSE
    /\ CallInBounds
    /\ grid[<<call.row, call.col>>].is_mine
    /\ grid[<<call.row, call.col>>].state = REVEALED
    /\ cells_revealed >= 3
    /\ \E p \in Mines : grid[p].state # REVEALED

----------------------------------------------------------------------------
\* C35: in every reachable state where first_move is True no cell is a
\* mine, no cell is REVEALED and cells_revealed is 0 (cells may be
\* FLAGGED); and a flag call made while first_move is True places no mine
\* and leaves first_move True.
C35_BeforeFirstReveal ==
    /\ [](first_move = TRUE
            => /\ \A p \in DOMAIN grid : /\ ~grid[p].is_mine
                                         /\ grid[p].state # REVEALED
               /\ cells_revealed = 0)
    /\ [][(first_move = TRUE /\ call'.op = "flag")
            => /\ first_move' = TRUE
               /\ \A p \in DOMAIN grid' : ~grid'[p].is_mine]_vars

\* Two flags placed on a board that holds no mine, before the first reveal.
C35_Witness ==
    /\ first_move = TRUE
    /\ call.op = "flag"
    /\ result = TRUE
    /\ flags_placed = 2
    /\ Cardinality(CellsIn(FLAGGED)) = 2
    /\ total_mines > 0

----------------------------------------------------------------------------
\* C36 as stated: on every board with total_mines <= rows * cols - 1, once
\* the first reveal has been made the grid holds total_mines mines,
\* total_safe_cells is the number of the cells that are not mines and, in
\* a WON state, cells_revealed = total_safe_cells.
C36_PlacedMinesEqualTotal ==
    (first_move = FALSE /\ total_mines <= rows * cols - 1)
    => /\ mine_count(grid) = total_mines
       /\ total_safe_cells = Cardinality(SafeCells)
       /\ game_state = WON => cells_revealed = total_safe_cells

\* C36 as amended: the first reveal, at (r, c), has room for as many mines
\* as there are cells outside of (r, c) and its neighbours.  When
\* total_mines is at most that number the grid holds total_mines mines
\* after the call; otherwise it holds that number of mines only, and
\* total_safe_cells is smaller than the number of the cells that are not
\* mines.  In every state after the first reveal in which the grid holds
\* total_mines mines, total_safe_cells is the number of the cells that are
\* not mines and, if the game is WON, cells_revealed = total_safe_cells.
C36_PlacedMinesEqualTotalIfRoom ==
    /\ [][(/\ call'.op = "reveal"
           /\ first_move
           /\ ~reveal_rejects(call'.row, call'.col))
          => LET room == Cardinality(DOMAIN grid
                            \ ExclusionSet(<<call'.row, call'.col>>))
             IN IF total_mines <= room
                THEN /\ mine_count(grid') = total_mines'
                     /\ total_safe_cells' = Cardinality(SafeCells')
                ELSE /\ mine_count(grid') = room
                     /\ total_safe_cells' < Cardinality(SafeCells')]_vars
    /\ []((first_move = FALSE /\ mine_count(grid) = total_mines)
            => /\ total_safe_cells = Cardinality(SafeCells)
               /\ game_state = WON => cells_revealed = total_safe_cells)

\* A board of two rows and three columns constructed with two mines and won
\* by its first reveal: both mines were placed and the four safe cells are
\* the ones counted.
C36_Witness ==
    /\ game_state = WON
    /\ call.op = "reveal"
    /\ rows * cols = 6
    /\ total_mines = 2
    /\ mine_count(grid) = 2
    /\ total_safe_cells = 4
    /\ cells_revealed = 4

----------------------------------------------------------------------------
\* C37: a flag call changes the state of the cell of the call and
\* flags_placed at most: is_mine and adjacent_mines of every cell, the
\* state of every other cell, cells_revealed, game_state, first_move, the
\* dimensions and the mine counts stay as they are, so that a flag call
\* neither wins nor loses the game.
C37_FlagFrame ==
    [][call'.op = "flag"
       => /\ DOMAIN grid' = DOMAIN grid
          /\ \A p \in DOMAIN grid :
                /\ grid'[p].is_mine = grid[p].is_mine
                /\ grid'[p].adjacent_mines = grid[p].adjacent_mines
                /\ p # <<call'.row, call'.col>>
                      => grid'[p].state = grid[p].state
          /\ UNCHANGED <<cells_revealed, game_state, first_move, rows, cols,
                         total_mines, total_safe_cells>>]_vars

\* A flag put on a HIDDEN mine next to a REVEALED cell, in a game that
\* goes on with every safe cell but one REVEALED.
C37_Witness ==
    /\ call.op = "flag"
    /\ result = TRUE
    /\ game_state = PLAYING
    /\ grid[<<call.row, call.col>>].is_mine
    /\ grid[<<call.row, call.col>>].state = FLAGGED
    /\ flags_placed = 1
    /\ Cardinality({p \in SafeCells : grid[p].state # REVEALED}) = 1
    /\ cells_revealed >= 1

----------------------------------------------------------------------------
\* The games in which flag is never called: the public operations of Next
\* but flag.
NoFlagNext ==
    \/ \E p \in Args : reveal(p[1], p[2])
    \/ \E p \in Args : chord_reveal(p[1], p[2])
    \/ reset
    \/ \E pattern \in ExploredPatterns : setup_board_from_pattern(pattern)

NoFlagSpec == Init /\ [][NoFlagNext]_vars

\* C38: in every state reached without a call of flag, no REVEALED safe
\* cell with adjacent_mines 0 has a HIDDEN neighbour: the opened region is
\* closed under the cascade rule after every reveal and chord_reveal.
C38_OpenedRegionIsClosed ==
    \A p \in DOMAIN grid :
        (/\ grid[p].state = REVEALED
         /\ ~grid[p].is_mine
         /\ grid[p].adjacent_mines = 0)
        => \A q \in AdjacentCells(p) : grid[q].state # HIDDEN

\* A chord_reveal that succeeded on a cell with adjacent_mines 0 in a game
\* that goes on: the neighbours of the cell are REVEALED, a safe cell
\* further away is still HIDDEN.
C38_Witness ==
    /\ call.op = "chord_reveal"
    /\ result = TRUE
    /\ game_state = PLAYING
    /\ flags_placed = 0
    /\ grid[<<call.row, call.col>>].adjacent_mines = 0
    /\ \A q \in AdjacentCells(<<call.row, call.col>>) :
          grid[q].state = REVEALED
    /\ \E p \in SafeCells : grid[p].state = HIDDEN
    /\ \E p \in Mines : grid[p].state = HIDDEN

----------------------------------------------------------------------------
\* C39: in every reachable state flags_placed is not negative and
\* flags_placed + cells_revealed is at most rows * cols.
C39_CountersWithinBoard ==
    /\ flags_placed >= 0
    /\ flags_placed + cells_revealed <= rows * cols

\* A game won with a flag on a mine that was never taken off: the two
\* counters add up to the number of the cells of the board.
C39_Witness ==
    /\ game_state = WON
    /\ flags_placed >= 1
    /\ cells_revealed >= 2
    /\ flags_placed + cells_revealed = rows * cols
    /\ rows * cols >= 4
====
